---- MODULE Spec2Model ----
(***************************************************************************)
(* Session orchestration of src/src/webapp/app.py: a Flask application     *)
(* that signs users in with the authorization-code flow through MSAL and   *)
(* keeps the flow record, the user record and the two MSAL caches in the   *)
(* per-user server-side session.                                           *)
(*                                                                         *)
(* The session is a Python dict: it is modelled as a function whose        *)
(* DOMAIN is the set of keys present.  Every handler is an operator that   *)
(* maps the session at request start (and the answers of the identity      *)
(* provider and of the downstream API, which are inputs) to the session at *)
(* request end, the response and the effects of the request.  Flask saves  *)
(* the session when it finalizes the response, also for the response of an *)
(* unhandled exception, so writes made before an exception persist.        *)
(***************************************************************************)
EXTENDS Integers, FiniteSets, Sequences, TLC

\* ---- bounds of the model -------------------------------------------------
MaxTime == 2        \* the clock runs 0..MaxTime
MaxLifetime == 1    \* issued tokens live 1..MaxLifetime ticks
MaxHttp == 1        \* entries the metadata (http) cache can hold
MaxUses == 2        \* the callbacks and exchanges per flow record are counted up to here
MaxSlots == 2       \* requests of one session that are in progress at once

\* ---- names ---------------------------------------------------------------
GraphRule == "/graph"
AdminRule == "/admin"
CallbackRule == "/auth/redirect"
IndexRule == "/"
LogoutRule == "/logout"

\* msal's auth_code_flow["auth_uri"]: the authorization endpoint of the IdP
AuthUri == "https://login.microsoftonline.com/authorize"

Roles == {"admin", "reader"}

\* the roles arrays the identity provider puts into ID tokens: one without
\* and one with the admin role
RoleArrays == {{"reader"}, {"admin", "reader"}}

\* ---- dict operations on the session ---------------------------------------
\* session.pop(key, None)
Pop(s, k) == [x \in (DOMAIN s) \ {k} |-> s[x]]

\* session[key] = value
Put(s, k, v) == [x \in (DOMAIN s) \cup {k} |-> IF x = k THEN v ELSE s[x]]

\* "not session.get(key)" is false for every value the program stores: the
\* user record is a two-key dict and a serialized cache is at least "{}"
Has(s, k) == k \in DOMAIN s

EmptySession == [x \in {} |-> 0]

\* ---- responses ---------------------------------------------------------------
Redirect(to) == [kind |-> "redirect", detail |-> to]
View(name) == [kind |-> "view", detail |-> name]
\* werkzeug.exceptions.Forbidden, which no error handler catches: HTTP 403
ForbiddenResp == [kind |-> "forbidden", detail |-> "User is missing a required role."]
\* an exception no handler catches: Flask answers 500
Crash(exc) == [kind |-> "error", detail |-> exc]
NoResp == [kind |-> "none", detail |-> "none"]

\* ---- effects of one request -----------------------------------------------
\* steps lists, in order, the checks and calls the handler went through
NoOps == [begin |-> 0, exchange |-> 0, silent |-> 0, downstream |-> 0,
          rolecheck |-> 0, wrote |-> {}, steps |-> <<>>]

\* ---- the identity library (msal), as far as the handlers use it ----------

\* the claims an ID token issued at time t can carry: an expiry and an
\* optional "roles" array
IssuedClaims(t) ==
    { [exp |-> e, has_roles |-> TRUE, roles |-> rs] :
        e \in (t + 1)..(t + MaxLifetime), rs \in RoleArrays }
    \cup { [exp |-> e, has_roles |-> FALSE, roles |-> {}] :
        e \in (t + 1)..(t + MaxLifetime) }

\* expiry of an access token issued at time t
IssuedExp(t) == (t + 1)..(t + MaxLifetime)

\* the raw ID token is the encoding of its claims
EncodeJwt(claims) == [jwt |-> claims]

\* decode_id_token without the check of the exp claim
decode_id_token_noexp(id_token, t) == "ok"

\* msal.oauth2cli.oidc.decode_id_token: RuntimeError once the token is past
\* its exp claim, the claims otherwise
decode_id_token(id_token, t) ==
    IF t > id_token.jwt.exp THEN "RuntimeError" ELSE "ok"

\* msal.SerializableTokenCache()
NewTokenCache ==
    [account |-> FALSE, at_exp |-> -1, rt |-> FALSE, has_state_changed |-> FALSE]

\* SerializableTokenCache.serialize: the JSON text of the cache's content
serialize(tc) == [account |-> tc.account, at_exp |-> tc.at_exp, rt |-> tc.rt]

\* SerializableTokenCache.deserialize: load the content, no state change
deserialize(text) ==
    [account |-> text.account, at_exp |-> text.at_exp, rt |-> text.rt,
     has_state_changed |-> FALSE]

\* session.get("msal_http_response_cache", {}): number of cached responses
HttpOf(s) ==
    IF Has(s, "msal_http_response_cache") THEN s["msal_http_response_cache"] ELSE 0

\* msal.ConfidentialClientApplication(...): reads the tenant metadata
\* through http_cache, which it may fill with one more response
HttpAfter(s) ==
    {HttpOf(s)} \cup (IF HttpOf(s) < MaxHttp THEN {HttpOf(s) + 1} ELSE {})

\* the http_cache dict is filled in place: when the handler raises before
\* it assigns the session key, the change still reaches a dict that is
\* already stored in the session, and is lost for the {} default
InPlaceHttp(s, h2) ==
    IF Has(s, "msal_http_response_cache")
    THEN Put(s, "msal_http_response_cache", h2) ELSE s

\* what the identity provider sends to the callback route
AuthResponses == {"code", "error", "bad"}
\* what the token endpoint answers to a code or a refresh token
IdpAnswers == {"accept", "reject", "error"}

PyNone == [py_none |-> TRUE]

\* ConfidentialClientApplication.acquire_token_by_auth_code_flow:
\* ValueError when the response carries neither a code nor an error or its
\* state does not match the flow; the error as a dict when the response
\* carries one; otherwise one request to the token endpoint, whose tokens
\* are added to the token cache
acquire_token_by_auth_code_flow(tc, args, idp, claims, at_exp) ==
    IF args = "bad"
    THEN [raised |-> "ValueError", tc |-> tc, result |-> PyNone, exchange |-> 0]
    ELSE IF args = "error"
    THEN [raised |-> "none", tc |-> tc,
          result |-> [error |-> "access_denied"], exchange |-> 0]
    ELSE IF idp = "accept"
    THEN [raised |-> "none",
          tc |-> [account |-> TRUE, at_exp |-> at_exp, rt |-> TRUE,
                  has_state_changed |-> TRUE],
          result |-> [id_token |-> EncodeJwt(claims), id_token_claims |-> claims,
                      access_token |-> at_exp],
          exchange |-> 1]
    ELSE [raised |-> "none", tc |-> tc,
          result |-> [error |-> "invalid_grant"], exchange |-> 1]

\* ConfidentialClientApplication.acquire_token_silent: the cached access
\* token while it is valid; otherwise the refresh token is redeemed, which
\* adds the new tokens on success and discards the refresh token on
\* invalid_grant; None when no token could be obtained.  Whether looking up
\* an expired access token also removes it depends on the msal version
\* (evict).
acquire_token_silent(tc, t, idp, at_exp, evict) ==
    IF t < tc.at_exp
    THEN [tc |-> tc, result |-> [access_token |-> tc.at_exp]]
    ELSE LET looked == IF evict /\ tc.at_exp # -1
                       THEN [tc EXCEPT !.at_exp = -1, !.has_state_changed = TRUE]
                       ELSE tc
         IN  IF ~tc.rt
             THEN [tc |-> looked, result |-> PyNone]
             ELSE IF idp = "accept"
             THEN [tc |-> [looked EXCEPT !.at_exp = at_exp,
                                         !.has_state_changed = TRUE],
                   result |-> [access_token |-> at_exp]]
             ELSE IF idp = "reject"
             THEN [tc |-> [looked EXCEPT !.rt = FALSE,
                                         !.has_state_changed = TRUE],
                   result |-> PyNone]
             ELSE [tc |-> looked, result |-> PyNone]

\* ---- the handlers -----------------------------------------------------------
\* A handler yields [s: the session at request end, resp: the response,
\* ops: the effects of the request].

\* the error handler with the post-login target set to url_for("index")
initiate_auth_code_flow_index(s, rule, h2, ops) ==
    LET s1 == Pop(s, "user")
        auth_code_flow == [auth_uri |-> AuthUri, post_sign_in_url |-> IndexRule]
        s2 == Put(s1, "auth_code_flow", auth_code_flow)
        s3 == Put(s2, "msal_http_response_cache", h2)
    IN  [s |-> s3,
         resp |-> Redirect(s3["auth_code_flow"].auth_uri),
         ops |-> [ops EXCEPT !.begin = @ + 1,
                             !.wrote = @ \cup {"auth_code_flow",
                                               "msal_http_response_cache"}]]

\* the error handler without session.pop("user", None)
initiate_auth_code_flow_keepuser(s, rule, h2, ops) ==
    LET auth_code_flow == [auth_uri |-> AuthUri, post_sign_in_url |-> rule]
        s2 == Put(s, "auth_code_flow", auth_code_flow)
        s3 == Put(s2, "msal_http_response_cache", h2)
    IN  [s |-> s3,
         resp |-> Redirect(s3["auth_code_flow"].auth_uri),
         ops |-> [ops EXCEPT !.begin = @ + 1,
                             !.wrote = @ \cup {"auth_code_flow",
                                               "msal_http_response_cache"}]]

\* the error handler keeping a flow record that is already in the session
\* (session.setdefault)
initiate_auth_code_flow_setdefault(s, rule, h2, ops) ==
    LET s1 == Pop(s, "user")
        auth_code_flow == [auth_uri |-> AuthUri, post_sign_in_url |-> rule]
        s2 == IF Has(s1, "auth_code_flow") THEN s1
              ELSE Put(s1, "auth_code_flow", auth_code_flow)
        s3 == Put(s2, "msal_http_response_cache", h2)
    IN  [s |-> s3,
         resp |-> Redirect(s3["auth_code_flow"].auth_uri),
         ops |-> [ops EXCEPT !.begin = @ + 1,
                             !.steps = Append(@, "begin"),
                             !.wrote = @ \cup {"auth_code_flow",
                                               "msal_http_response_cache"}]]

\* @app.errorhandler(Unauthorized): rule is request.url_rule.rule of the
\* request that raised, h2 the http cache after the client was built
initiate_auth_code_flow(s, rule, h2, ops) ==
    LET s1 == Pop(s, "user")
        auth_code_flow == [auth_uri |-> AuthUri, post_sign_in_url |-> rule]
        s2 == Put(s1, "auth_code_flow", auth_code_flow)
        s3 == Put(s2, "msal_http_response_cache", h2)
    IN  [s |-> s3,
         resp |-> Redirect(s3["auth_code_flow"].auth_uri),
         ops |-> [ops EXCEPT !.begin = @ + 1,
                             !.steps = Append(@, "begin"),
                             !.wrote = @ \cup {"auth_code_flow",
                                               "msal_http_response_cache"}]]

\* GET /
index(s) == [s |-> s, resp |-> View("public/index.html"), ops |-> NoOps]

\* the callback with session.pop("auth_code_flow", {}): a missing flow
\* record no longer stops the handler
authorized_popdefault(s, args, idp, h2, claims, at_exp) ==
    LET auth_code_flow == IF Has(s, "auth_code_flow") THEN s["auth_code_flow"]
                          ELSE [auth_uri |-> AuthUri, post_sign_in_url |-> IndexRule]
        s1 == Pop(s, "auth_code_flow")
        token_cache == IF Has(s1, "token_cache")
                       THEN deserialize(s1["token_cache"]) ELSE NewTokenCache
        x == acquire_token_by_auth_code_flow(token_cache, args, idp, claims, at_exp)
        ops1 == [NoOps EXCEPT !.exchange = x.exchange]
        s2 == Put(s1, "token_cache", serialize(x.tc))
        s3 == Put(s2, "msal_http_response_cache", h2)
        ops3 == [ops1 EXCEPT !.wrote = {"token_cache", "msal_http_response_cache"}]
    IN  IF x.raised # "none"
        THEN [s |-> InPlaceHttp(s1, h2), resp |-> Crash(x.raised), ops |-> ops1]
        ELSE IF "id_token" \notin DOMAIN x.result
        THEN [s |-> s3, resp |-> Crash("KeyError"), ops |-> ops3]
        ELSE [s |-> Put(s3, "user",
                        [id_token |-> x.result["id_token"],
                         id_token_claims |-> x.result["id_token_claims"]]),
              resp |-> Redirect(auth_code_flow.post_sign_in_url),
              ops |-> [ops3 EXCEPT !.wrote = @ \cup {"user"}]]

\* the callback ending in redirect(url_for("index")) and keeping only the
\* raw ID token in the user record
authorized_toindex(s, args, idp, h2, claims, at_exp) ==
    IF ~Has(s, "auth_code_flow")
    THEN [s |-> s, resp |-> Crash("KeyError"), ops |-> NoOps]
    ELSE
    LET s1 == Pop(s, "auth_code_flow")
        token_cache == IF Has(s1, "token_cache")
                       THEN deserialize(s1["token_cache"]) ELSE NewTokenCache
        x == acquire_token_by_auth_code_flow(token_cache, args, idp, claims, at_exp)
        ops1 == [NoOps EXCEPT !.exchange = x.exchange]
        s2 == Put(s1, "token_cache", serialize(x.tc))
        s3 == Put(s2, "msal_http_response_cache", h2)
        ops3 == [ops1 EXCEPT !.wrote = {"token_cache", "msal_http_response_cache"}]
    IN  IF x.raised # "none"
        THEN [s |-> InPlaceHttp(s1, h2), resp |-> Crash(x.raised), ops |-> ops1]
        ELSE IF "id_token" \notin DOMAIN x.result
        THEN [s |-> s3, resp |-> Crash("KeyError"), ops |-> ops3]
        ELSE [s |-> Put(s3, "user",
                        [id_token |-> x.result["id_token"],
                         id_token_claims |-> x.result["id_token_claims"]]),
              resp |-> Redirect(IndexRule),
              ops |-> [ops3 EXCEPT !.wrote = @ \cup {"user"}]]

\* the callback reading the result with result.get(...): an error result
\* no longer raises, and the handler signs the user in without tokens
authorized_noraise(s, args, idp, h2, claims, at_exp) ==
    IF ~Has(s, "auth_code_flow")
    THEN [s |-> s, resp |-> Crash("KeyError"), ops |-> NoOps]
    ELSE
    LET auth_code_flow == s["auth_code_flow"]
        s1 == Pop(s, "auth_code_flow")
        token_cache == IF Has(s1, "token_cache")
                       THEN deserialize(s1["token_cache"]) ELSE NewTokenCache
        x == acquire_token_by_auth_code_flow(token_cache, args, idp, claims, at_exp)
        ops1 == [NoOps EXCEPT !.exchange = x.exchange]
        s2 == Put(s1, "token_cache", serialize(x.tc))
        s3 == Put(s2, "msal_http_response_cache", h2)
        ops3 == [ops1 EXCEPT !.wrote = {"token_cache", "msal_http_response_cache",
                                        "user"}]
    IN  IF x.raised # "none"
        THEN [s |-> InPlaceHttp(s1, h2), resp |-> Crash(x.raised), ops |-> ops1]
        ELSE IF "id_token" \notin DOMAIN x.result
        THEN [s |-> Put(s3, "user", [id_token |-> PyNone, id_token_claims |-> PyNone]),
              resp |-> Redirect(auth_code_flow.post_sign_in_url),
              ops |-> ops3]
        ELSE [s |-> Put(s3, "user",
                        [id_token |-> x.result["id_token"],
                         id_token_claims |-> x.result["id_token_claims"]]),
              resp |-> Redirect(auth_code_flow.post_sign_in_url),
              ops |-> ops3]

\* the callback reading the flow record with session.get(...): the record
\* stays in the session
authorized_keepflow(s, args, idp, h2, claims, at_exp) ==
    IF ~Has(s, "auth_code_flow")
    THEN [s |-> s, resp |-> Crash("KeyError"), ops |-> NoOps]
    ELSE
    LET auth_code_flow == s["auth_code_flow"]
        token_cache == IF Has(s, "token_cache")
                       THEN deserialize(s["token_cache"]) ELSE NewTokenCache
        x == acquire_token_by_auth_code_flow(token_cache, args, idp, claims, at_exp)
        ops1 == [NoOps EXCEPT !.exchange = x.exchange]
        s2 == Put(s, "token_cache", serialize(x.tc))
        s3 == Put(s2, "msal_http_response_cache", h2)
        ops3 == [ops1 EXCEPT !.wrote = {"token_cache", "msal_http_response_cache"}]
    IN  IF x.raised # "none"
        THEN [s |-> InPlaceHttp(s, h2), resp |-> Crash(x.raised), ops |-> ops1]
        ELSE IF "id_token" \notin DOMAIN x.result
        THEN [s |-> s3, resp |-> Crash("KeyError"), ops |-> ops3]
        ELSE [s |-> Put(s3, "user",
                        [id_token |-> x.result["id_token"],
                         id_token_claims |-> x.result["id_token_claims"]]),
              resp |-> Redirect(auth_code_flow.post_sign_in_url),
              ops |-> [ops3 EXCEPT !.wrote = @ \cup {"user"}]]

\* the callback without session["token_cache"] = token_cache.serialize()
authorized_nocache(s, args, idp, h2, claims, at_exp) ==
    IF ~Has(s, "auth_code_flow")
    THEN [s |-> s, resp |-> Crash("KeyError"), ops |-> NoOps]
    ELSE
    LET auth_code_flow == s["auth_code_flow"]
        s1 == Pop(s, "auth_code_flow")
        token_cache == IF Has(s1, "token_cache")
                       THEN deserialize(s1["token_cache"]) ELSE NewTokenCache
        x == acquire_token_by_auth_code_flow(token_cache, args, idp, claims, at_exp)
        ops1 == [NoOps EXCEPT !.exchange = x.exchange]
        s3 == Put(s1, "msal_http_response_cache", h2)
        ops3 == [ops1 EXCEPT !.wrote = {"msal_http_response_cache"}]
    IN  IF x.raised # "none"
        THEN [s |-> InPlaceHttp(s1, h2), resp |-> Crash(x.raised), ops |-> ops1]
        ELSE IF "id_token" \notin DOMAIN x.result
        THEN [s |-> s3, resp |-> Crash("KeyError"), ops |-> ops3]
        ELSE [s |-> Put(s3, "user",
                        [id_token |-> x.result["id_token"],
                         id_token_claims |-> x.result["id_token_claims"]]),
              resp |-> Redirect(auth_code_flow.post_sign_in_url),
              ops |-> [ops3 EXCEPT !.wrote = @ \cup {"user"}]]

\* GET /auth/redirect
authorized(s, args, idp, h2, claims, at_exp) ==
    IF ~Has(s, "auth_code_flow")
    THEN \* session.pop("auth_code_flow") without a default
         [s |-> s, resp |-> Crash("KeyError"), ops |-> NoOps]
    ELSE
    LET auth_code_flow == s["auth_code_flow"]
        s1 == Pop(s, "auth_code_flow")
        token_cache == IF Has(s1, "token_cache")
                       THEN deserialize(s1["token_cache"]) ELSE NewTokenCache
        x == acquire_token_by_auth_code_flow(token_cache, args, idp, claims, at_exp)
        ops1 == [NoOps EXCEPT !.exchange = x.exchange,
                              !.steps = IF x.exchange > 0 THEN <<"flow", "exchange">>
                                        ELSE <<"flow">>]
        s2 == Put(s1, "token_cache", serialize(x.tc))
        s3 == Put(s2, "msal_http_response_cache", h2)
        ops3 == [ops1 EXCEPT !.wrote = {"token_cache", "msal_http_response_cache"}]
    IN  IF x.raised # "none"
        THEN [s |-> InPlaceHttp(s1, h2), resp |-> Crash(x.raised), ops |-> ops1]
        ELSE IF "id_token" \notin DOMAIN x.result
        THEN \* result["id_token"] of an error result
             [s |-> s3, resp |-> Crash("KeyError"), ops |-> ops3]
        ELSE [s |-> Put(s3, "user",
                        [id_token |-> x.result["id_token"],
                         id_token_claims |-> x.result["id_token_claims"]]),
              resp |-> Redirect(auth_code_flow.post_sign_in_url),
              ops |-> [ops3 EXCEPT !.wrote = @ \cup {"user"}]]

\* /graph writing the token cache back whether or not it changed
graph_alwayswrite(s, t, h2, idp, at_exp, evict, api) ==
    IF ~Has(s, "user") \/ ~Has(s, "token_cache")
    THEN initiate_auth_code_flow(s, GraphRule, h2, NoOps)
    ELSE IF decode_id_token(s["user"].id_token, t) = "RuntimeError"
    THEN initiate_auth_code_flow(s, GraphRule, h2, NoOps)
    ELSE
    LET token_cache == deserialize(s["token_cache"])
        x == acquire_token_silent(token_cache, t, idp, at_exp, evict)
        s1 == Put(s, "token_cache", serialize(x.tc))
        s2 == Put(s1, "msal_http_response_cache", h2)
        ops2 == [NoOps EXCEPT
                   !.silent = 1,
                   !.wrote = {"msal_http_response_cache", "token_cache"}]
    IN  IF ~token_cache.account
        THEN [s |-> InPlaceHttp(s, h2), resp |-> Crash("IndexError"), ops |-> NoOps]
        ELSE IF x.result = PyNone
        THEN [s |-> s2, resp |-> Crash("TypeError"), ops |-> ops2]
        ELSE [s |-> s2,
              resp |-> [kind |-> "view", detail |-> "authenticated/graph.html",
                        graphCallResponse |-> api],
              ops |-> [ops2 EXCEPT !.downstream = 1]]

\* /graph without the validation of the stored ID token
graph_nodecode(s, t, h2, idp, at_exp, evict, api) ==
    IF ~Has(s, "user") \/ ~Has(s, "token_cache")
    THEN initiate_auth_code_flow(s, GraphRule, h2,
                                 [NoOps EXCEPT !.steps = <<"session">>])
    ELSE
    LET token_cache == deserialize(s["token_cache"])
        x == acquire_token_silent(token_cache, t, idp, at_exp, evict)
        s1 == IF x.tc.has_state_changed
              THEN Put(s, "token_cache", serialize(x.tc)) ELSE s
        s2 == Put(s1, "msal_http_response_cache", h2)
        ops2 == [NoOps EXCEPT
                   !.silent = 1,
                   !.steps = <<"session", "silent">>,
                   !.wrote = {"msal_http_response_cache"}
                             \cup (IF x.tc.has_state_changed
                                   THEN {"token_cache"} ELSE {})]
    IN  IF ~token_cache.account
        THEN [s |-> InPlaceHttp(s, h2), resp |-> Crash("IndexError"),
              ops |-> [NoOps EXCEPT !.steps = <<"session">>]]
        ELSE IF x.result = PyNone
        THEN [s |-> s2, resp |-> Crash("TypeError"), ops |-> ops2]
        ELSE [s |-> s2,
              resp |-> [kind |-> "view", detail |-> "authenticated/graph.html",
                        graphCallResponse |-> api],
              ops |-> [ops2 EXCEPT !.downstream = 1,
                                   !.steps = Append(@, "downstream")]]

\* GET /graph; t is the time of the request, api the downstream answer
graph(s, t, h2, idp, at_exp, evict, api) ==
    IF ~Has(s, "user") \/ ~Has(s, "token_cache")
    THEN initiate_auth_code_flow(s, GraphRule, h2,
                                 [NoOps EXCEPT !.steps = <<"session">>])
    ELSE IF decode_id_token(s["user"].id_token, t) = "RuntimeError"
    THEN initiate_auth_code_flow(s, GraphRule, h2,
                                 [NoOps EXCEPT !.steps = <<"session", "decode">>])
    ELSE
    LET token_cache == deserialize(s["token_cache"])
        x == acquire_token_silent(token_cache, t, idp, at_exp, evict)
        s1 == IF x.tc.has_state_changed
              THEN Put(s, "token_cache", serialize(x.tc)) ELSE s
        s2 == Put(s1, "msal_http_response_cache", h2)
        ops2 == [NoOps EXCEPT
                   !.silent = 1,
                   !.steps = <<"session", "decode", "silent">>,
                   !.wrote = {"msal_http_response_cache"}
                             \cup (IF x.tc.has_state_changed
                                   THEN {"token_cache"} ELSE {})]
    IN  IF ~token_cache.account
        THEN \* msal_client.get_accounts()[0] of an empty list
             [s |-> InPlaceHttp(s, h2), resp |-> Crash("IndexError"),
              ops |-> [NoOps EXCEPT !.steps = <<"session", "decode">>]]
        ELSE IF x.result = PyNone
        THEN \* result['access_token'] of None
             [s |-> s2, resp |-> Crash("TypeError"), ops |-> ops2]
        ELSE [s |-> s2,
              resp |-> [kind |-> "view", detail |-> "authenticated/graph.html",
                        graphCallResponse |-> api],
              ops |-> [ops2 EXCEPT !.downstream = 1,
                                   !.steps = Append(@, "downstream")]]

\* /admin raising Unauthorized instead of Forbidden for a missing role
admin_unauthorized(s, t, h2) ==
    IF ~Has(s, "user")
    THEN initiate_auth_code_flow(s, AdminRule, h2, NoOps)
    ELSE IF decode_id_token(s["user"].id_token, t) = "RuntimeError"
    THEN initiate_auth_code_flow(s, AdminRule, h2, NoOps)
    ELSE
    LET user_claims == s["user"].id_token_claims
        ops1 == [NoOps EXCEPT !.rolecheck = 1]
    IN  IF ~user_claims.has_roles \/ "admin" \notin user_claims.roles
        THEN initiate_auth_code_flow(s, AdminRule, h2, ops1)
        ELSE [s |-> s, resp |-> View("authenticated/admin.html"), ops |-> ops1]

\* /admin without the test of the user entry: session["user"] of a session
\* without user raises KeyError
admin_nocheck(s, t, h2) ==
    IF ~Has(s, "user")
    THEN [s |-> s, resp |-> Crash("KeyError"), ops |-> NoOps]
    ELSE IF decode_id_token(s["user"].id_token, t) = "RuntimeError"
    THEN initiate_auth_code_flow(s, AdminRule, h2, NoOps)
    ELSE
    LET user_claims == s["user"].id_token_claims
        ops1 == [NoOps EXCEPT !.rolecheck = 1]
    IN  IF ~user_claims.has_roles \/ "admin" \notin user_claims.roles
        THEN [s |-> s, resp |-> ForbiddenResp, ops |-> ops1]
        ELSE [s |-> s, resp |-> View("authenticated/admin.html"), ops |-> ops1]

\* /admin building an MSAL client and storing its http cache, as the other
\* handlers do
admin_touch(s, t, h2) ==
    IF ~Has(s, "user")
    THEN initiate_auth_code_flow(s, AdminRule, h2, NoOps)
    ELSE IF decode_id_token(s["user"].id_token, t) = "RuntimeError"
    THEN initiate_auth_code_flow(s, AdminRule, h2, NoOps)
    ELSE
    LET user_claims == s["user"].id_token_claims
        ops1 == [NoOps EXCEPT !.rolecheck = 1,
                              !.wrote = {"msal_http_response_cache"}]
        s1 == Put(s, "msal_http_response_cache", h2)
    IN  IF ~user_claims.has_roles \/ "admin" \notin user_claims.roles
        THEN [s |-> s1, resp |-> ForbiddenResp, ops |-> ops1]
        ELSE [s |-> s1, resp |-> View("authenticated/admin.html"), ops |-> ops1]

\* GET /admin
admin(s, t, h2) ==
    IF ~Has(s, "user")
    THEN initiate_auth_code_flow(s, AdminRule, h2,
                                 [NoOps EXCEPT !.steps = <<"session">>])
    ELSE IF decode_id_token(s["user"].id_token, t) = "RuntimeError"
    THEN initiate_auth_code_flow(s, AdminRule, h2,
                                 [NoOps EXCEPT !.steps = <<"session", "decode">>])
    ELSE
    LET user_claims == s["user"].id_token_claims
        ops1 == [NoOps EXCEPT !.rolecheck = 1,
                              !.steps = <<"session", "decode", "rolecheck">>]
    IN  IF ~user_claims.has_roles \/ "admin" \notin user_claims.roles
        THEN [s |-> s, resp |-> ForbiddenResp, ops |-> ops1]
        ELSE [s |-> s, resp |-> View("authenticated/admin.html"), ops |-> ops1]

\* /logout as session.clear()
logout_clear(s) ==
    [s |-> EmptySession, resp |-> Redirect(IndexRule), ops |-> NoOps]

\* /logout without session.pop("user", None)
logout_keepuser(s) ==
    [s |-> Pop(Pop(s, "auth_code_flow"), "token_cache"),
     resp |-> Redirect(IndexRule), ops |-> NoOps]

\* /logout that only redirects
logout_noop(s) ==
    [s |-> s, resp |-> Redirect(IndexRule), ops |-> NoOps]

\* GET /logout
logout(s) ==
    [s |-> Pop(Pop(Pop(s, "user"), "auth_code_flow"), "token_cache"),
     resp |-> Redirect(IndexRule), ops |-> NoOps]

\* ---- the state machine -------------------------------------------------------
VARIABLES
    session,   \* the flask session of one browser: key -> value
    now,       \* the clock the tokens expire against
    pre,       \* the session at the start of the last request
    req,       \* the rule of the last request
    reqNow,    \* the time of the last request
    inp,       \* what the identity provider answered during the last request
    resp,      \* the response to the last request
    ops,       \* the effects of the last request
    origin,    \* the rule of the last request that raised Unauthorized
    stale,     \* the target of the flow record that request overwrote
    callbacks, \* callbacks served since the last begin-flow
    uses,      \* token exchanges attempted since the last begin-flow
    trip,      \* progress of a sign-in round trip, see RoundTrip
    loggedOut, \* a logout was served and no exchange has succeeded since
    running    \* the requests in progress, each with its own copy of the session

vars == <<session, now, pre, req, reqNow, inp, resp, ops, origin,
          stale, callbacks, uses, trip, loggedOut, running>>

Slots == 1..MaxSlots

\* a slot: pc is idle, loaded (the session was read) or done (it was written
\* back); s is the copy of the session the request works on while it is
\* loaded, exchange the token exchanges it attempted
Idle == [pc |-> "idle", s |-> EmptySession, exchange |-> 0]

NoInput == [args |-> "-", idp |-> "-"]

Init ==
    /\ session = EmptySession
    /\ now = 0
    /\ pre = EmptySession
    /\ req = "none"
    /\ reqNow = 0
    /\ inp = NoInput
    /\ resp = NoResp
    /\ ops = NoOps
    /\ origin = "none"
    /\ stale = "none"
    /\ callbacks = 0
    /\ uses = 0
    /\ trip = 0
    /\ loggedOut = FALSE
    /\ running = [i \in Slots |-> Idle]

\* the callback request with this input completes the sign-in of session s
Completes(s, rule, input) ==
    /\ rule = CallbackRule /\ Has(s, "auth_code_flow")
    /\ input.args = "code" /\ input.idp = "accept"

Count(n, k) == IF n + k > MaxUses THEN MaxUses ELSE n + k

\* a round trip: 1 after a protected request of a session without user
\* began a flow, 2 after the next request was a callback that completed the
\* sign-in, 3 after the next request was the one the callback redirected to;
\* 0 otherwise
RoundTrip(rule, input, r) ==
    IF rule \in {GraphRule, AdminRule} /\ ~Has(session, "user") /\ r.ops.begin > 0
    THEN 1
    ELSE IF trip = 1 /\ Completes(session, rule, input) THEN 2
    ELSE IF trip = 2 /\ resp.kind = "redirect" /\ rule = resp.detail THEN 3
    ELSE 0

\* one request: the handler's result r becomes the new state
Serve(rule, input, r) ==
    /\ session' = r.s
    /\ resp' = r.resp
    /\ ops' = r.ops
    /\ pre' = session
    /\ req' = rule
    /\ reqNow' = now
    /\ inp' = input
    /\ origin' = IF r.ops.begin > 0 THEN rule ELSE origin
    /\ stale' = IF r.ops.begin = 0 THEN stale
                ELSE IF Has(session, "auth_code_flow")
                THEN session["auth_code_flow"].post_sign_in_url ELSE "none"
    /\ callbacks' = IF r.ops.begin > 0 THEN 0
                    ELSE IF rule = CallbackRule THEN Count(callbacks, 1)
                    ELSE callbacks
    /\ uses' = IF r.ops.begin > 0 THEN 0 ELSE Count(uses, r.ops.exchange)
    /\ trip' = RoundTrip(rule, input, r)
    /\ loggedOut' = IF rule = LogoutRule THEN TRUE
                    ELSE IF Completes(session, rule, input) THEN FALSE
                    ELSE loggedOut
    /\ UNCHANGED <<now, running>>

Index == Serve(IndexRule, NoInput, index(session))

\* the token endpoint is asked only for a response that carries a code, and
\* issues tokens only when it accepts; the MSAL client is built only when
\* the flow record was found
Callback ==
    \E args \in AuthResponses,
       h2 \in (IF Has(session, "auth_code_flow")
               THEN HttpAfter(session) ELSE {HttpOf(session)}) :
    \E idp \in (IF args = "code" THEN IdpAnswers ELSE {"-"}) :
    \E claims \in (IF idp = "accept" THEN IssuedClaims(now)
                   ELSE {[exp |-> 0, has_roles |-> FALSE, roles |-> {}]}),
       at_exp \in (IF idp = "accept" THEN IssuedExp(now) ELSE {-1}) :
        Serve(CallbackRule, [args |-> args, idp |-> idp],
              authorized(session, args, idp, h2, claims, at_exp))

\* /graph of session s at time t gets as far as the silent acquisition and
\* finds no valid access token in the cache
CacheMiss(s, t) ==
    /\ Has(s, "user") /\ Has(s, "token_cache")
    /\ decode_id_token(s["user"].id_token, t) = "ok"
    /\ s["token_cache"].account
    /\ ~(t < s["token_cache"].at_exp)

\* /graph of session s at time t gets as far as the silent acquisition and
\* finds a valid access token in the cache
CacheHit(s, t) ==
    /\ Has(s, "user") /\ Has(s, "token_cache")
    /\ decode_id_token(s["user"].id_token, t) = "ok"
    /\ s["token_cache"].account
    /\ t < s["token_cache"].at_exp

\* the token endpoint is asked only to redeem a refresh token after a cache
\* miss, and the downstream API only once there is an access token
Graph ==
    \E h2 \in HttpAfter(session),
       idp \in (IF CacheMiss(session, now) /\ session["token_cache"].rt
                THEN IdpAnswers ELSE {"-"}),
       evict \in (IF CacheMiss(session, now) THEN BOOLEAN ELSE {FALSE}) :
    \E at_exp \in (IF idp = "accept" THEN IssuedExp(now) ELSE {-1}),
       api \in (IF CacheHit(session, now) \/ idp = "accept"
                THEN {"ok", "error"} ELSE {"-"}) :
        Serve(GraphRule, [args |-> "-", idp |-> idp],
              graph(session, now, h2, idp, at_exp, evict, api))

Admin ==
    \E h2 \in HttpAfter(session) :
        Serve(AdminRule, NoInput, admin(session, now, h2))

Logout == Serve(LogoutRule, NoInput, logout(session))

\* time passes
Tick ==
    /\ now < MaxTime
    /\ now' = now + 1
    /\ UNCHANGED <<session, pre, req, reqNow, inp, resp, ops, origin,
                   stale, callbacks, uses, trip, loggedOut, running>>

Next == Index \/ Callback \/ Graph \/ Admin \/ Logout \/ Tick

Spec == Init /\ [][Next]_vars

\* ---- callbacks of one session in progress at the same time -----------------
\* flask_session reads the whole session from its store when a request
\* starts and writes the whole session back when the response is finalized:
\* a request works on its own copy, and the last one to finish wins.

\* the sessions a begin-flow leaves behind: a first visit, or a visit after
\* a failed sign-in, which left an empty token cache
PendingSessions ==
    { initiate_auth_code_flow(s0, rule, h, NoOps).s :
        s0 \in {EmptySession, [token_cache |-> serialize(NewTokenCache)]},
        rule \in {GraphRule, AdminRule}, h \in 0..MaxHttp }

InitConc ==
    /\ session \in PendingSessions
    /\ now = 0
    /\ pre = EmptySession
    /\ req = "none"
    /\ reqNow = 0
    /\ inp = NoInput
    /\ resp = NoResp
    /\ ops = NoOps
    /\ origin = session["auth_code_flow"].post_sign_in_url
    /\ stale = "none"
    /\ callbacks = 0
    /\ uses = 0
    /\ trip = 0
    /\ loggedOut = FALSE
    /\ running = [i \in Slots |-> Idle]

\* a callback request arrives: its session is read from the store
CallbackStart(i) ==
    /\ running[i].pc = "idle"
    /\ running' = [running EXCEPT ![i] = [pc |-> "loaded", s |-> session,
                                          exchange |-> 0]]
    /\ UNCHANGED <<session, now, pre, req, reqNow, inp, resp, ops, origin,
                   stale, callbacks, uses, trip, loggedOut>>

\* the handler has run on the request's copy: the copy is written to the store
CallbackEnd(i) ==
    /\ running[i].pc = "loaded"
    /\ \E args \in AuthResponses,
          h2 \in (IF Has(running[i].s, "auth_code_flow")
                  THEN HttpAfter(running[i].s) ELSE {HttpOf(running[i].s)}) :
       \E idp \in (IF args = "code" THEN IdpAnswers ELSE {"-"}) :
       \E claims \in (IF idp = "accept" THEN IssuedClaims(now)
                      ELSE {[exp |-> 0, has_roles |-> FALSE, roles |-> {}]}),
          at_exp \in (IF idp = "accept" THEN IssuedExp(now) ELSE {-1}) :
          LET r == authorized(running[i].s, args, idp, h2, claims, at_exp)
          IN  /\ session' = r.s
              /\ resp' = r.resp
              /\ ops' = r.ops
              /\ pre' = running[i].s
              /\ req' = CallbackRule
              /\ reqNow' = now
              /\ inp' = [args |-> args, idp |-> idp]
              /\ running' = [running EXCEPT ![i] = [pc |-> "done",
                                                    s |-> EmptySession,
                                                    exchange |-> r.ops.exchange]]
    /\ UNCHANGED <<now, origin, stale, callbacks, uses, trip, loggedOut>>

NextConc == \E i \in Slots : CallbackStart(i) \/ CallbackEnd(i)

SpecConc == InitConc /\ [][NextConc]_vars

\* ---- properties ----------------------------------------------------------------
Protected == {GraphRule, AdminRule}

\* the response of the Unauthorized handler
BeginFlowRedirect == resp = Redirect(AuthUri)

\* key k is the same in the session after the last request as before it
Same(k) ==
    /\ Has(session, k) <=> Has(pre, k)
    /\ Has(pre, k) => session[k] = pre[k]

\* the ID token stored at the start of the last request was past its expiry
\* when the request was made
PreIdTokenExpired == Has(pre, "user") /\ reqNow > pre["user"].id_token.jwt.exp
PreIdTokenValid == Has(pre, "user") /\ reqNow <= pre["user"].id_token.jwt.exp

\* the last request was a callback that found a flow record and whose code
\* the token endpoint accepted / did not accept
ExchangeSucceeded ==
    /\ req = CallbackRule /\ Has(pre, "auth_code_flow")
    /\ inp.args = "code" /\ inp.idp = "accept"
ExchangeRejected ==
    /\ req = CallbackRule /\ Has(pre, "auth_code_flow")
    /\ inp.args = "code" /\ inp.idp \in {"reject", "error"}

\* C1: a request to /graph or /admin whose session has no user record is
\* answered by a redirect to the authorization URI, and afterwards the
\* session holds an auth_code_flow record whose post-login target is the
\* requested route.
C1_NoUserBeginsFlow ==
    (req \in Protected /\ ~Has(pre, "user")) =>
        /\ BeginFlowRedirect
        /\ Has(session, "auth_code_flow")
        /\ session["auth_code_flow"].post_sign_in_url = req

C1_Witness ==
    /\ req = AdminRule /\ ~Has(pre, "user") /\ Has(pre, "token_cache")
    /\ BeginFlowRedirect
    /\ session["auth_code_flow"].post_sign_in_url = AdminRule

\* C2: a callback that finds no auth_code_flow record makes no exchange
\* with the token endpoint and leaves the user record and the token cache
\* of the session as they were.
C2_NoFlowNoExchange ==
    (req = CallbackRule /\ ~Has(pre, "auth_code_flow")) =>
        /\ ops.exchange = 0
        /\ Same("user")
        /\ Same("token_cache")

\* a replayed callback, with an acceptable code, in a signed-in session
C2_Witness ==
    /\ req = CallbackRule /\ ~Has(pre, "auth_code_flow")
    /\ inp.args = "code" /\ inp.idp = "accept"
    /\ Has(pre, "user") /\ Has(session, "user")

\* C3: after a callback whose exchange succeeds the session holds a token
\* cache with tokens and a user record made of the ID token and its claims,
\* and the response redirects to the route whose request began the flow.
C3_SuccessfulCallback ==
    ExchangeSucceeded =>
        /\ Has(session, "token_cache")
        /\ session["token_cache"].account
        /\ session["token_cache"].at_exp > reqNow
        /\ session["token_cache"].rt
        /\ Has(session, "user")
        /\ session["user"].id_token_claims = session["user"].id_token.jwt
        /\ origin \in Protected
        /\ resp = Redirect(origin)

C3_Witness ==
    /\ ExchangeSucceeded
    /\ origin = AdminRule
    /\ resp = Redirect(AdminRule)
    /\ Has(session, "user")

\* C4: the session never holds an auth_code_flow record and a user record
\* at the same time.
C4_FlowAndUserExclusive ==
    ~(Has(session, "auth_code_flow") /\ Has(session, "user"))

\* a flow begun from a session that still held a (stale) user record
C4_Witness ==
    /\ req \in Protected /\ Has(pre, "user")
    /\ Has(session, "auth_code_flow") /\ ~Has(session, "user")

\* C5: a protected request of a session whose stored ID token is expired
\* ends as the same request of that session without the user record does:
\* begin-flow redirect, user record removed, flow record stored for the
\* requested route, the rest of the session untouched, and no silent
\* acquisition, downstream call or role check.
C5_ExpiredIsUnauthenticated ==
    (req \in Protected /\ PreIdTokenExpired) =>
        /\ BeginFlowRedirect
        /\ ~Has(session, "user")
        /\ Has(session, "auth_code_flow")
        /\ Has(session, "msal_http_response_cache")
        /\ session =
             Put(Put(Pop(pre, "user"), "auth_code_flow",
                     [auth_uri |-> AuthUri, post_sign_in_url |-> req]),
                 "msal_http_response_cache", session["msal_http_response_cache"])
        /\ ops.silent = 0 /\ ops.downstream = 0 /\ ops.rolecheck = 0

C5_Witness ==
    /\ req = GraphRule /\ PreIdTokenExpired /\ Has(pre, "token_cache")
    /\ BeginFlowRedirect /\ ~Has(session, "user")

\* C6: /admin from a session whose user record holds a valid ID token is
\* Forbidden, and not a begin-flow redirect, when the claims have no roles
\* claim or the roles do not contain admin; it is the admin view when they
\* contain admin.
C6_RoleGate ==
    (req = AdminRule /\ PreIdTokenValid) =>
        LET c == pre["user"].id_token_claims
        IN  IF c.has_roles /\ "admin" \in c.roles
            THEN resp = View("authenticated/admin.html")
            ELSE resp = ForbiddenResp /\ ~BeginFlowRedirect /\ ops.begin = 0
                 /\ ~Has(session, "auth_code_flow")

C6_Witness ==
    /\ req = AdminRule /\ PreIdTokenValid
    /\ ~pre["user"].id_token_claims.has_roles
    /\ resp = ForbiddenResp

\* C7: logout removes the user record, the flow record and the token cache
\* and leaves msal_http_response_cache as it was.
C7_Logout ==
    (req = LogoutRule) =>
        /\ ~Has(session, "user")
        /\ ~Has(session, "auth_code_flow")
        /\ ~Has(session, "token_cache")
        /\ Same("msal_http_response_cache")

C7_Witness ==
    /\ req = LogoutRule
    /\ Has(pre, "user") /\ Has(pre, "token_cache")
    /\ Has(pre, "msal_http_response_cache") /\ pre["msal_http_response_cache"] > 0
    /\ Has(session, "msal_http_response_cache")

\* C8: on /graph the token_cache entry of the session is assigned exactly
\* when the silent acquisition changed the cache: it is left alone while the
\* cached access token is valid, and replaced by the new cache when the
\* refresh token was redeemed.
C8_WriteIffChanged ==
    (req = GraphRule /\ ops.silent = 1) =>
        LET old == pre["token_cache"]
        IN  /\ ("token_cache" \in ops.wrote) <=> (session["token_cache"] # old)
            /\ (reqNow < old.at_exp) =>
                  ("token_cache" \notin ops.wrote /\ session["token_cache"] = old)
            /\ (reqNow >= old.at_exp /\ old.rt /\ inp.idp = "accept") =>
                  /\ "token_cache" \in ops.wrote
                  /\ session["token_cache"].at_exp > reqNow

\* a refresh: the access token had expired, the ID token had not
C8_Witness ==
    /\ req = GraphRule /\ ops.silent = 1
    /\ reqNow >= pre["token_cache"].at_exp
    /\ "token_cache" \in ops.wrote
    /\ resp.kind = "view"

C8_WitnessUnchanged ==
    /\ req = GraphRule /\ ops.silent = 1
    /\ "token_cache" \notin ops.wrote
    /\ resp.kind = "view"

\* C9: every authentication failure ends in a begin-flow redirect: a
\* callback that finds no flow record restarts the flow (redirect, new flow
\* record), and a rejected exchange on the callback and a failed silent
\* acquisition on /graph end in the redirect, none in an unhandled error.
C9_FailuresRestartFlow ==
    /\ (req = CallbackRule /\ ~Has(pre, "auth_code_flow")) =>
           (BeginFlowRedirect /\ Has(session, "auth_code_flow"))
    /\ ExchangeRejected => BeginFlowRedirect
    /\ (req = GraphRule /\ ops.silent = 1 /\ ops.downstream = 0) => BeginFlowRedirect
    /\ (req \in {CallbackRule, GraphRule}) => resp.kind # "error"

\* C10: when the token endpoint rejects the code, the callback fails: one
\* exchange was attempted, the session has no user record, and the response
\* is not a redirect to the post-login route.
C10_RejectedExchange ==
    ExchangeRejected =>
        /\ ops.exchange = 1
        /\ ~Has(session, "user")
        /\ resp.kind = "error"
        /\ resp # Redirect(pre["auth_code_flow"].post_sign_in_url)

C10_Witness ==
    /\ ExchangeRejected
    /\ inp.idp = "reject"
    /\ pre["auth_code_flow"].post_sign_in_url = GraphRule
    /\ resp = Crash("KeyError")

\* C11: a request to /graph or /admin whose session lacks the user record
\* or lacks the token cache raises Unauthorized: the answer is the
\* begin-flow redirect and no view is served, no role is checked and no
\* token is acquired.
C11_MissingEntryIsUnauthenticated ==
    (req \in Protected /\ (~Has(pre, "user") \/ ~Has(pre, "token_cache"))) =>
        /\ BeginFlowRedirect
        /\ ops.begin = 1
        /\ resp.kind # "view"
        /\ ops.rolecheck = 0 /\ ops.silent = 0 /\ ops.downstream = 0

C11_Witness ==
    /\ req = AdminRule /\ ~Has(pre, "token_cache") /\ ~Has(pre, "user")
    /\ BeginFlowRedirect /\ ops.begin = 1

\* C16: a session that holds a user record holds a token cache.
C16_UserImpliesTokenCache ==
    Has(session, "user") => Has(session, "token_cache")

\* a signed-in session whose token cache /graph has just rewritten
C16_Witness ==
    /\ req = GraphRule /\ "token_cache" \in ops.wrote
    /\ Has(session, "user") /\ Has(session, "token_cache")

\* C17: a request to /, and a request to /admin that ends in Forbidden or
\* in the admin view, leave the session as it was: no entry is assigned,
\* removed or changed, and no flow record appears.
C17_ReadOnlyRequests ==
    (\/ req = IndexRule
     \/ (req = AdminRule /\ resp \in {ForbiddenResp, View("authenticated/admin.html")})) =>
        /\ session = pre
        /\ ops.wrote = {}
        /\ Same("user") /\ Same("token_cache")
        /\ Same("msal_http_response_cache") /\ Same("auth_code_flow")

C17_Witness ==
    /\ req = AdminRule /\ resp = View("authenticated/admin.html")
    /\ Has(pre, "user") /\ Has(pre, "token_cache")
    /\ Has(pre, "msal_http_response_cache")
    /\ pre["msal_http_response_cache"] < MaxHttp
    /\ session = pre

\* C14: the downstream API is called at most once in a request, only by
\* /graph, and only after the request found the user record and the token
\* cache, validated the stored ID token and attempted the silent
\* acquisition, in this order.
C14_DownstreamOnlyAfterChecks ==
    /\ ops.downstream <= 1
    /\ (req # GraphRule) => ops.downstream = 0
    /\ (ops.downstream = 1) =>
          /\ req = GraphRule
          /\ Has(pre, "user") /\ Has(pre, "token_cache")
          /\ PreIdTokenValid
          /\ ops.silent = 1
          /\ ops.steps = <<"session", "decode", "silent", "downstream">>

\* the downstream call made with a token that was just refreshed, and whose
\* answer is an error that the view shows
C14_Witness ==
    /\ req = GraphRule /\ ops.downstream = 1
    /\ reqNow >= pre["token_cache"].at_exp
    /\ resp.kind = "view" /\ resp.graphCallResponse = "error"

\* C12: a begin-flow replaces whatever flow record the session held, so
\* the one record of the session is that of the most recent begin-flow, and
\* a callback that completes the sign-in redirects to the route of the most
\* recent request that began a flow.
C12_LastBeginWins ==
    /\ (req \in Protected /\ ops.begin > 0) =>
          /\ Has(session, "auth_code_flow")
          /\ session["auth_code_flow"].post_sign_in_url = req
    /\ ExchangeSucceeded =>
          /\ pre["auth_code_flow"].post_sign_in_url = origin
          /\ resp = Redirect(origin)

\* /graph began a flow, /admin began another one over it, and the callback
\* went to /admin
C12_Witness ==
    /\ ExchangeSucceeded
    /\ stale = GraphRule /\ origin = AdminRule
    /\ resp = Redirect(AdminRule)

\* C13: a callback that finds a flow record leaves the session without
\* one, whatever the exchange does; between two begin-flows at most one
\* exchange is attempted, and a second callback attempts none.
C13_FlowIsSingleUse ==
    /\ (req = CallbackRule /\ Has(pre, "auth_code_flow")) =>
          ~Has(session, "auth_code_flow")
    /\ uses <= 1
    /\ (req = CallbackRule /\ callbacks >= 2) => ops.exchange = 0

\* a second callback, with a code the token endpoint would accept, after a
\* first one that used the record
C13_Witness ==
    /\ req = CallbackRule /\ callbacks = 2 /\ uses = 1
    /\ inp.args = "code" /\ inp.idp = "accept"
    /\ ops.exchange = 0 /\ resp = Crash("KeyError")

\* a terminal outcome of a protected route
Terminal == resp.kind \in {"view", "forbidden"}

PreAccessTokenLost ==
    /\ Has(pre, "token_cache")
    /\ reqNow >= pre["token_cache"].at_exp
    /\ inp.idp # "accept"

C19_NothingServedAfterLogout ==
    loggedOut =>
        /\ ~Has(session, "user")
        /\ (resp.kind = "view") => resp = View("public/index.html")
        /\ ops.silent = 0 /\ ops.downstream = 0
        /\ (req \in Protected) => BeginFlowRedirect

\* a failed sign-in after a logout, and then a protected request
C19_Witness ==
    /\ loggedOut /\ req = GraphRule /\ BeginFlowRedirect
    /\ Has(pre, "token_cache") /\ ~Has(pre, "user")

\* the callbacks in progress have all finished
AllDone == \A i \in Slots : running[i].pc = "done"

RECURSIVE SumExchanges(_)
SumExchanges(S) ==
    IF S = {} THEN 0
    ELSE LET i == CHOOSE x \in S : TRUE
         IN  running[i].exchange + SumExchanges(S \ {i})

\* C15 as stated: callbacks that interleave on the one flow record of the
\* session attempt at most one token exchange between them, and the session
\* holds no flow record once they have finished.
C15_SingleUseInterleaved ==
    /\ SumExchanges(Slots) <= 1
    /\ AllDone => ~Has(session, "auth_code_flow")

\* C15, amended: each of the interleaved callbacks attempts at most one
\* exchange and removes the flow record from the copy it writes back, so
\* the session holds no flow record once they have finished; the exchanges
\* they attempt with the one record can be as many as the callbacks.
C15_InterleavedCallbacks ==
    /\ \A i \in Slots : running[i].exchange <= 1
    /\ (req = CallbackRule /\ Has(pre, "auth_code_flow")) =>
          ~Has(session, "auth_code_flow")
    /\ SumExchanges(Slots) <= MaxSlots
    /\ AllDone => ~Has(session, "auth_code_flow")

\* the callbacks all read the flow record before any of them wrote, and
\* each attempted an exchange with it
C15_Witness ==
    /\ AllDone
    /\ \A i \in Slots : running[i].exchange = 1
    /\ ~Has(session, "auth_code_flow")
    /\ Has(session, "user")

====
